---- MODULE Spec2Model ----
(***************************************************************************)
(* Model of the CarPlay engine supervisor, modules/carplay_module.py       *)
(* (class CarPlayManager), as it is driven by the threaded Flask routes of *)
(* app.py.  Request threads call start/stop/restart/send_key/get_status;   *)
(* every successful start launches one daemon thread running               *)
(* _monitor_output; the external FastCarPlay process is the environment.   *)
(***************************************************************************)
EXTENDS Integers, Sequences, FiniteSets, TLC

\* ------------------------------------------------------------------ bounds
\* Processes the model follows at a time: a process id 1..MaxProcs is taken by a
\* spawn and is free again once the process has exited and nothing refers to it.
MaxProcs == 2
\* Threads of one kind (pollers, GLib loops) the phone manager has going at a time.
MaxThreads == 2

\* ------------------------------------------------------- program constants
KEY_LEFT == 100
KEY_RIGHT == 101
KEY_SELECT_DOWN == 104
KEY_SELECT_UP == 105
KEY_BACK == 106
KEY_HOME == 200
DEFAULT_WIDTH == 800
DEFAULT_HEIGHT == 480

\* Python's None for the string-valued attributes, and for the process handle.
None == "None"
NoProc == 0

\* The two Flask worker threads that overlap in the model.
Callers == {"c1", "c2"}
\* What can go wrong in a system call: mkdir/open of the settings file, Popen
\* (the executable is gone, or another OSError), terminate/wait/kill, the
\* decoding of a stdout line, open/flush of the key pipe.
Faults == {"settings", "notfound", "popen", "stop", "decode", "pipe"}
Procs == 1..MaxProcs

pipe_path == "/tmp/fastcarplay_pipe"

\* Configurations a start() call is made with: (fullscreen, width, height).
DefaultConfig == [fullscreen |-> TRUE, width |-> DEFAULT_WIDTH, height |-> DEFAULT_HEIGHT]
Configs == {DefaultConfig, [fullscreen |-> FALSE, width |-> DEFAULT_WIDTH, height |-> DEFAULT_HEIGHT]}

\* What the external program has written to stderr when it exits: nothing, a
\* text, or bytes that are not UTF-8.
NoBytes == ""
BadBytes == "\\xff"
Stderrs == {NoBytes, "usb open failed", BadBytes}
\* bytes.decode(): the text of the bytes; it raises on BadBytes.
Decodable(b) == b # BadBytes
decode(b) == b

\* Lines of the external program's stdout as readline() returns them.
Lines == {"Phone Connected\n", "Phone Disconnected\n", "Error: usb reset\n", "frame ok\n",
          "Error: Connected twice\n"}
\* `marker in line` (lines 317, 320, 323): marker is a substring of line.
Contains(marker, line) ==
    \E i \in 1..(Len(line) - Len(marker) + 1) :
        SubSeq(line, i, i + Len(marker) - 1) = marker

\* str.strip() (line 313): leading and trailing whitespace is dropped.
Whitespace == {" ", "\n", "\t", "\r"}
RECURSIVE strip(_)
strip(s) ==
    IF Len(s) = 0 THEN s
    ELSE IF SubSeq(s, 1, 1) \in Whitespace THEN strip(SubSeq(s, 2, Len(s)))
    ELSE IF SubSeq(s, Len(s), Len(s)) \in Whitespace THEN strip(SubSeq(s, 1, Len(s) - 1))
    ELSE s

\* What `lsusb` prints (or that the call raised), and is_dongle_connected on it.
LsusbOutputs == {"1314:1520 Carlinkit", "046d:c52b Receiver", "lsusb raised"}
is_dongle_connected(lsusb) ==
    /\ lsusb # "lsusb raised"
    /\ lsusb = "1314:1520 Carlinkit"

VARIABLES
    is_running,        \* self.is_running
    carplay_process,   \* self.carplay_process: NoProc or a process id
    last_status,       \* self.last_status
    connected_device,  \* self.connected_device
    error_message,     \* self.error_message
    process_lock,      \* self.process_lock: None or the caller holding it
    built,             \* executable_path.exists()
    settings,          \* content of conf/settings.txt
    pipe,              \* what is at pipe_path: "absent", "fifo" or "file"
    proc,              \* the process of each id: "gone", "alive" or "killed"
    signal,            \* the signal the latest step delivered, if it delivered one
    pc,                \* where each request thread is
    call,              \* the call each request thread is in
    ret,               \* what the call that returned last gave its caller
    mon,               \* the monitor thread launched for each process
    expected,          \* history: the last start() has succeeded (line 120), and
                       \* neither a stop() has returned nor the monitor seen the exit
                       \* of its process (line 307) since
    phone,             \* the PhoneManager of modules/phone_manager.py and its threads
    bluetooth          \* the BluetoothManager of modules/bluetooth_module.py

vars == <<is_running, carplay_process, last_status, connected_device, error_message,
          process_lock, built, settings, pipe, proc, signal, pc, call, ret, mon,
          expected, phone, bluetooth>>

\* The CarPlay supervisor with its environment, and the two device managers.
carplay == <<is_running, carplay_process, last_status, connected_device, error_message,
             process_lock, built, settings, pipe, proc, signal, pc, call, ret, mon,
             expected>>
devices == <<phone, bluetooth>>

supervisor == <<is_running, carplay_process, last_status, connected_device, error_message>>
files == <<built, settings, pipe>>
history == <<expected>>

NoStatus ==
    [running |-> FALSE, built |-> FALSE, status |-> "", connected_device |-> None,
     dongle_detected |-> FALSE, error |-> None]
\* fail and exc: the `except` clause or failure branch start() is in, and str(e).
\* The rest is not program state: the process the call has spawned, the number of
\* monitor threads it has started, the stderr it has captured and the text it
\* has stored as error_message.
NoCall == [op |-> "none", cfg |-> DefaultConfig, key |-> None, fail |-> "none", exc |-> None,
           spawned |-> NoProc, launched |-> 0, stderr |-> None, stored |-> None]
\* keys, success, message and status are the returned dictionary.  The rest is
\* not part of it: the caller and its call (call.op is "restart" for the start()
\* that restart() makes), self.carplay_process at the return, and the bytes the
\* call put in the pipe.
\* raised: the call did not return, an exception left it.
NoRet == [op |-> "none", by |-> None, keys |-> {}, success |-> FALSE, message |-> <<>>,
          status |-> NoStatus, call |-> NoCall, handle |-> NoProc, written |-> <<>>,
          raised |-> FALSE]
NoMon == [pc |-> "none", target |-> NoProc, line |-> None]
NoSignal == [to |-> NoProc, sig |-> "none"]

\* get_status(): the snapshot dictionary (the two path entries are constants).
get_status(lsusb) ==
    [running |-> is_running,
     built |-> built,
     status |-> last_status,
     connected_device |-> connected_device,
     dongle_detected |-> is_dongle_connected(lsusb),
     error |-> error_message]
StatusKeys == {"running", "built", "status", "connected_device", "dongle_detected",
               "error", "executable_path", "settings_path"}
\* The result of start/stop without its snapshot.
ResultKeysNoStatus == {"success", "message"}
ResultKeys == {"success", "message", "status"}

\* The snapshot with the model's primed state: get_status() is evaluated after
\* the assignments of the same step.
get_status_after(lsusb) ==
    [running |-> is_running',
     built |-> built,
     status |-> last_status',
     connected_device |-> connected_device',
     dongle_detected |-> is_dongle_connected(lsusb),
     error |-> error_message']

\* _write_settings: the rendered file, the keys that depend on the call.
NoSettings ==
    [exists |-> FALSE, complete |-> FALSE, width |-> 0, height |-> 0,
     fullscreen |-> "", key_pipe_path |-> ""]
\* _write_settings with the default arguments whatever the call's are.
write_settingsDefaults(cfg) ==
    [exists |-> TRUE, complete |-> TRUE, width |-> DEFAULT_WIDTH, height |-> DEFAULT_HEIGHT,
     fullscreen |-> "true", key_pipe_path |-> pipe_path]
write_settings(cfg) ==
    [exists |-> TRUE,
     complete |-> TRUE,
     width |-> cfg.width,
     height |-> cfg.height,
     fullscreen |-> IF cfg.fullscreen THEN "true" ELSE "false",
     key_pipe_path |-> pipe_path]

\* ------------------------------------------------- the device managers
\* PhoneManager.__init__ (lines 45-60) on a platform: IS_LINUX, DBUS_AVAILABLE and
\* GLIB_AVAILABLE are found at import (lines 17-36).  connected_device_name and
\* caller_name are written wherever connected_device and caller_id are, and are
\* left out.  bus: self._bus is set; receivers: the signal receivers are
\* registered; loops: GLib loop threads going; poll: where each poller thread is.
Threads == 1..MaxThreads
NewPhone(linux, dbus, glib) ==
    [linux |-> linux, dbus |-> dbus, glib |-> glib,
     running |-> FALSE, connected_device |-> None, call_state |-> "idle",
     caller_id |-> None, bus |-> FALSE, receivers |-> FALSE, loops |-> 0,
     poll |-> [k \in Threads |-> "none"]]
\* lines 21-36: the imports are tried on Linux only.
Platforms ==
    {NewPhone(linux, dbus, glib) : linux \in {TRUE}, dbus \in BOOLEAN, glib \in BOOLEAN}
        \cup {NewPhone(FALSE, FALSE, FALSE)}

\* BluetoothManager.__init__ (lines 10-12)
NewBluetooth == [connected_device |-> None, is_connected_flag |-> FALSE]

\* The state after construction of the supervisor and of the Bluetooth manager.
Constructed ==
    /\ is_running = FALSE
    /\ carplay_process = NoProc
    /\ last_status = "stopped"
    /\ connected_device = None
    /\ error_message = None
    /\ process_lock = None
    /\ built \in BOOLEAN
    /\ settings = NoSettings
    /\ pipe = "absent"
    /\ proc = [p \in Procs |-> "gone"]
    /\ signal = NoSignal
    /\ pc = [t \in Callers |-> "idle"]
    /\ call = [t \in Callers |-> NoCall]
    /\ ret = NoRet
    /\ mon = [p \in Procs |-> NoMon]
    /\ expected = FALSE
    /\ bluetooth = NewBluetooth

\* The target platform: a Raspberry Pi with dbus-python and GLib.
Init == Constructed /\ phone = NewPhone(TRUE, TRUE, TRUE)

\* Any platform the phone manager is imported on.
InitPhone == Constructed /\ phone \in Platforms

\* ------------------------------------------------------------ environment
\* A killed process has SIGKILL pending and is still to be reaped.
Alive(p) == p # NoProc /\ proc[p] \in {"alive", "killed"}
\* "gone": the process has exited (or the id was never used).
Exited(p) == p # NoProc /\ proc[p] = "gone"
AliveProcs == {p \in Procs : Alive(p)}
\* Process ids a spawn may take: no process, and no reference left to one that
\* had it (not the handle, no monitor thread of its own still going, none
\* reading it, no call that spawned it still in progress).
Free == {p \in Procs :
               /\ proc[p] = "gone"
               /\ carplay_process # p
               /\ mon[p].pc = "none"
               /\ \A m \in Procs : mon[m].target # p
               /\ \A t \in Callers : call[t].spawned # p}

\* A step that delivers no signal, taken once the result of the call that
\* returned last has been handed over.
Silent ==
    /\ ret = NoRet
    /\ signal' = NoSignal
    /\ UNCHANGED devices

\* build script: out/app appears.
BuildEngine ==
    /\ Silent
    /\ ~built
    /\ built' = TRUE
    /\ UNCHANGED <<supervisor, process_lock, settings, pipe, proc, pc, call, ret, mon,
                   history>>

\* The external program creates its key pipe at key-pipe-path.
ProcCreatePipe(p) ==
    /\ Silent
    /\ Alive(p)
    /\ pipe # "fifo"
    /\ pipe' = "fifo"
    /\ UNCHANGED <<supervisor, process_lock, built, settings, proc, pc, call, ret, mon,
                   history>>

\* The external program exits: on its own, or because of a signal it received.
ProcExit(p) ==
    /\ Silent
    /\ Alive(p)
    /\ proc' = [proc EXCEPT ![p] = "gone"]
    /\ UNCHANGED <<supervisor, process_lock, files, pc, call, ret, mon, history>>

\* The pipe is removed (by the program on its way out, or by a clean-up).
PipeUnlink ==
    /\ Silent
    /\ pipe # "absent"
    /\ pipe' = "absent"
    /\ UNCHANGED <<supervisor, process_lock, built, settings, proc, pc, call, ret, mon,
                   history>>

\* ------------------------------------------------------------ call entry
\* start() calls that have yet to spawn: each needs a process id of its own.
SpawnsPending ==
    Cardinality({t \in Callers : /\ call[t].op \in {"start", "restart"}
                                 /\ pc[t] \notin {"start_grace", "start_ret", "start_fail_ret"}})

\* The request threads are interchangeable: the second one's calls matter only
\* when they overlap a call of the first.  E.callers: the threads that call.
\* A `with` block that keeps the lock when it is left.
ReleasedNever(t) == t

\* lines 74, 163: leaving `with self.process_lock:`, by return or by exception,
\* releases the lock.
Released(t) == None

MayCall(t, E) ==
    /\ Silent
    /\ t \in E.callers
    /\ pc[t] = "idle"
    /\ t = "c2" => pc["c1"] # "idle"

Enter(t, c, where) ==
    /\ call' = [call EXCEPT ![t] = c]
    /\ UNCHANGED ret
    /\ pc' = [pc EXCEPT ![t] = where]

\* The Flask route hands the result to its client (jsonify(result)).  The result
\* of a call is looked at in the state the call returns into, before any other
\* thread moves.
Deliver ==
    /\ ret # NoRet
    /\ ret' = NoRet
    /\ signal' = NoSignal
    /\ UNCHANGED <<supervisor, process_lock, files, proc, pc, call, mon, history, devices>>

\* The operations that catch nothing but FileNotFoundError.
CatchesNotFoundOnly ==
    [op \in {"start", "stop", "send_key", "is_dongle_connected"} |-> {"notfound"}]

\* The `except` clauses of each operation (lines 145 and 152, 197, 235, 55):
\* FileNotFoundError ("notfound") and Exception ("exc", which takes the rest).
Catches ==
    [op \in {"start", "stop", "send_key", "is_dongle_connected"} |->
        IF op = "start" THEN {"notfound", "exc"} ELSE {"exc"}]
Handled(op, kind) == kind \in Catches[op] \/ (kind = "notfound" /\ "exc" \in Catches[op])

\* An exception leaves caller t's call: what the caller gets is no result.
Raised(t) == [NoRet EXCEPT !.op = call[t].op, !.call = call[t], !.raised = TRUE]

\* A call returns r: the `with self.process_lock` block is left on the way out.
Return(t, r) ==
    /\ ret' = [r EXCEPT !.by = t]
    /\ call' = [call EXCEPT ![t] = NoCall]
    /\ pc' = [pc EXCEPT ![t] = "idle"]

Result(t, ok, msg, lsusb) ==
    [NoRet EXCEPT !.op = call[t].op, !.keys = ResultKeys, !.success = ok, !.message = msg,
                  !.status = get_status_after(lsusb), !.call = call[t],
                  !.handle = carplay_process']

\* app.py start_carplay -> carplay.start(fullscreen=...)
CallStart(t, E) ==
    /\ MayCall(t, E)
    /\ SpawnsPending < Cardinality(Free)
    /\ \E cfg \in E.configs :
          Enter(t, [NoCall EXCEPT !.op = "start", !.cfg = cfg], "start_lock")
    /\ UNCHANGED <<supervisor, process_lock, files, proc, mon, history>>

\* ------------------------------------------------------------------ start
\* start() without the test of line 76.
AlreadyRunningUntested == FALSE

\* line 76
AlreadyRunning == is_running

\* start() without the test of line 83.
is_builtUntested == TRUE

\* line 83
is_built == built

\* lines 74-88: the lock is taken; the two early returns (which release it), else
\* on to the settings file.
StartCheck(t) ==
    /\ Silent
    /\ pc[t] = "start_lock"
    /\ process_lock = None
    /\ IF AlreadyRunning
       THEN /\ process_lock' = Released(t)
            /\ expected' = TRUE
            /\ UNCHANGED <<supervisor, files, proc, mon>>
            /\ \E lsusb \in LsusbOutputs :
                  Return(t, Result(t, TRUE, <<"CarPlay already running">>, lsusb))
       ELSE IF ~is_built
       THEN /\ process_lock' = Released(t)
            /\ expected' = FALSE
            /\ UNCHANGED <<supervisor, files, proc, mon>>
            /\ \E lsusb \in LsusbOutputs :
                  Return(t, Result(t, FALSE,
                                   <<"FastCarPlay not built. Run build script first.">>, lsusb))
       ELSE /\ process_lock' = t
            /\ pc' = [pc EXCEPT ![t] = "start_write"]
            /\ UNCHANGED <<supervisor, files, proc, call, ret, mon, history>>

\* A failure branch of start() (line 138, 146, 153): error_message is stored,
\* the result is built next.  c is the call as it stands.
StartRaise(t, c, kind, text) ==
    /\ IF kind = "died" \/ Handled("start", kind)
       THEN /\ error_message' = text
            /\ call' = [call EXCEPT ![t] =
                           [c EXCEPT !.fail = kind, !.exc = text, !.stored = text]]
       ELSE /\ UNCHANGED error_message
            /\ call' = [call EXCEPT ![t] = [c EXCEPT !.fail = "raised", !.exc = text]]
    /\ pc' = [pc EXCEPT ![t] = "start_fail_ret"]

\* lines 90-95: mkdir, _write_settings, or one of them raises (mkdir, open).
StartWrite(t, E) ==
    /\ Silent
    /\ pc[t] = "start_write"
    /\ \/ /\ settings' = write_settings(call[t].cfg)
          /\ pc' = [pc EXCEPT ![t] = "start_spawn"]
          /\ UNCHANGED <<error_message, call>>
       \/ /\ "settings" \in E.faults
          /\ StartRaise(t, call[t], "exc", "OSError")
          /\ UNCHANGED settings
    /\ UNCHANGED <<is_running, carplay_process, last_status, connected_device,
                   process_lock, built, pipe, proc, ret, mon, history>>

\* lines 103-113: subprocess.Popen.
StartSpawn(t, E) ==
    /\ Silent
    /\ pc[t] = "start_spawn"
    /\ \/ \E p \in Free :
             /\ \A q \in Free : p <= q
             /\ proc' = [proc EXCEPT ![p] = "alive"]
             /\ carplay_process' = p
             /\ pc' = [pc EXCEPT ![t] = "start_grace"]
             /\ call' = [call EXCEPT ![t].spawned = p]
             /\ UNCHANGED error_message
       \/ /\ "notfound" \in E.faults
          /\ StartRaise(t, call[t], "notfound", "FastCarPlay executable not found")
          /\ UNCHANGED <<proc, carplay_process>>
       \/ /\ "popen" \in E.faults
          /\ StartRaise(t, call[t], "exc", "OSError")
          /\ UNCHANGED <<proc, carplay_process>>
    /\ UNCHANGED <<is_running, last_status, connected_device, process_lock, files,
                   ret, mon, history>>

\* Line 138 without its fallback for an empty stderr.
DiedMessageNoFallback(stderr) == decode(stderr)

\* line 138: what is stored for a process that died in the grace period.
DiedMessage(stderr) ==
    IF stderr # NoBytes THEN decode(stderr) ELSE "Process terminated unexpectedly"

\* start() without the poll of line 119.
PollAliveUnpolled(p) == TRUE

\* Popen.poll() is None
PollAlive(p) == Alive(p)

\* lines 116-128 and 137-138: after the sleep, poll() decides.  The process that
\* has died has left one of E.stderrs; decode() raises on bytes that are not text
\* (line 152).
StartGrace(t, E) ==
    /\ Silent
    /\ pc[t] = "start_grace"
    /\ IF PollAlive(carplay_process)
       THEN /\ is_running' = TRUE
            /\ last_status' = "running"
            /\ error_message' = None
            /\ mon' = [mon EXCEPT ![carplay_process] = [NoMon EXCEPT !.pc = "loop"]]
            /\ pc' = [pc EXCEPT ![t] = "start_ret"]
            /\ call' = [call EXCEPT ![t].launched = @ + 1]
            /\ expected' = TRUE
       ELSE /\ \E stderr \in E.stderrs :
                  LET c == [call[t] EXCEPT !.stderr = stderr] IN
                  IF Decodable(stderr)
                  THEN StartRaise(t, c, "died", DiedMessage(stderr))
                  ELSE StartRaise(t, c, "exc", "UnicodeDecodeError")
            /\ UNCHANGED <<is_running, last_status, mon, history>>
    /\ UNCHANGED <<carplay_process, connected_device, process_lock, files, proc, ret>>

\* lines 130-134
StartRet(t) ==
    /\ Silent
    /\ pc[t] = "start_ret"
    /\ process_lock' = Released(t)
    /\ UNCHANGED <<supervisor, files, proc, mon, history>>
    /\ \E lsusb \in LsusbOutputs :
          Return(t, Result(t, TRUE, <<"CarPlay started successfully">>, lsusb))

\* lines 139-143, 147-151, 155-159: the message of a failed start.
FailMessage(t) ==
    CASE call[t].fail = "died" -> <<"CarPlay failed to start: ", error_message>>
      [] call[t].fail = "notfound" -> <<error_message>>
      [] OTHER -> <<call[t].exc>>

StartFailRet(t) ==
    /\ Silent
    /\ pc[t] = "start_fail_ret"
    /\ process_lock' = Released(t)
    /\ expected' = FALSE
    /\ UNCHANGED <<supervisor, files, proc, mon>>
    /\ \E lsusb \in LsusbOutputs :
          Return(t, IF call[t].fail = "raised"
                    THEN Raised(t)
                    ELSE Result(t, FALSE, FailMessage(t), lsusb))

\* ------------------------------------------------------------------- stop
\* app.py stop_carplay -> carplay.stop()
CallStop(t, E) ==
    /\ MayCall(t, E)
    /\ Enter(t, [NoCall EXCEPT !.op = "stop"], "stop_lock")
    /\ UNCHANGED <<supervisor, process_lock, files, proc, mon, history>>

\* app.py restart_carplay -> carplay.restart(): stop(), then start() with the
\* default arguments (lines 333-337).
CallRestart(t, E) ==
    /\ MayCall(t, E)
    /\ SpawnsPending < Cardinality(Free)
    /\ Enter(t, [NoCall EXCEPT !.op = "restart"], "stop_lock")
    /\ UNCHANGED <<supervisor, process_lock, files, proc, mon, history>>

\* stop() returns: to the caller, or into restart(), which drops the result and
\* goes on to start() (lines 335-337).  The lock is released either way.
StopReturn(t, msg) ==
    /\ process_lock' = Released(t)
    /\ expected' = FALSE
    /\ IF call[t].op = "restart"
       THEN /\ pc' = [pc EXCEPT ![t] = "start_lock"]
            /\ UNCHANGED <<call, ret>>
       ELSE \E lsusb \in LsusbOutputs : Return(t, Result(t, TRUE, msg, lsusb))

\* Line 165 without its test of is_running.
NotRunningHandleOnly == carplay_process = NoProc

\* line 165
NotRunning == ~is_running \/ carplay_process = NoProc

\* lines 163-172: the lock is taken; the early return releases it.
StopCheck(t) ==
    /\ Silent
    /\ pc[t] = "stop_lock"
    /\ process_lock = None
    /\ IF NotRunning
       THEN /\ is_running' = FALSE
            /\ last_status' = "stopped"
            /\ UNCHANGED <<carplay_process, connected_device, error_message>>
            /\ StopReturn(t, <<"CarPlay was not running">>)
       ELSE /\ process_lock' = t
            /\ pc' = [pc EXCEPT ![t] = "stop_term"]
            /\ UNCHANGED <<supervisor, call, ret, history>>
    /\ UNCHANGED <<files, proc, mon>>

\* lines 197-205: the `except` clause of stop() (an exception it did not catch
\* would leave stop(), and restart() with it).
StopExcept(t) ==
    IF Handled("stop", "exc")
    THEN /\ is_running' = FALSE
         /\ last_status' = "stopped"
         /\ UNCHANGED <<carplay_process, connected_device, error_message>>
         /\ StopReturn(t, <<"CarPlay stopped">>)
    ELSE /\ UNCHANGED <<supervisor, history>>
         /\ process_lock' = Released(t)
         /\ Return(t, Raised(t))

\* lines 185-195: the state is cleared and the result built.
StopClear(t) ==
    /\ carplay_process' = NoProc
    /\ is_running' = FALSE
    /\ last_status' = "stopped"
    /\ connected_device' = None
    /\ error_message' = None
    /\ StopReturn(t, <<"CarPlay stopped successfully">>)

\* Popen.send_signal: the signal goes out unless the process is known to be gone.
\* SIGTERM leaves the process to exit when it will; SIGKILL it cannot survive.
Signal(p, sig) ==
    IF Alive(p)
    THEN /\ signal' = [to |-> p, sig |-> sig]
         /\ proc' = IF sig = "kill" THEN [proc EXCEPT ![p] = "killed"] ELSE proc
    ELSE /\ signal' = NoSignal
         /\ UNCHANGED proc

\* stop() that force-kills without looking at the outcome of the wait.
TimedOutWhatever(p) == TRUE

\* lines 179-180: wait(timeout=3) raises TimeoutExpired, the process not having
\* exited.
TimedOut(p) == Alive(p)

\* line 175: terminate(), or it raises.
StopTerm(t, E) ==
    /\ ret = NoRet
    /\ pc[t] = "stop_term"
    /\ \/ /\ Signal(carplay_process, "term")
          /\ pc' = [pc EXCEPT ![t] = "stop_wait"]
          /\ UNCHANGED <<supervisor, process_lock, call, ret, history>>
       \/ /\ "stop" \in E.faults
          /\ UNCHANGED proc
          /\ signal' = NoSignal
          /\ StopExcept(t)
    /\ UNCHANGED <<files, mon, devices>>

\* lines 178-182: wait(timeout=3) returns, or times out and kill() follows, or
\* one of them raises something else.
StopWait(t, E) ==
    /\ ret = NoRet
    /\ pc[t] = "stop_wait"
    /\ \/ /\ Exited(carplay_process)
          /\ UNCHANGED proc
          /\ signal' = NoSignal
          /\ StopClear(t)
       \/ /\ TimedOut(carplay_process)
          /\ Signal(carplay_process, "kill")
          /\ pc' = [pc EXCEPT ![t] = "stop_killwait"]
          /\ UNCHANGED <<supervisor, process_lock, call, ret, history>>
       \/ /\ "stop" \in E.faults
          /\ UNCHANGED proc
          /\ signal' = NoSignal
          /\ StopExcept(t)
    /\ UNCHANGED <<files, mon, devices>>

\* line 183: wait() with no timeout, or it raises.
StopKillWait(t, E) ==
    /\ Silent
    /\ pc[t] = "stop_killwait"
    /\ \/ /\ Exited(carplay_process)
          /\ StopClear(t)
       \/ /\ "stop" \in E.faults
          /\ StopExcept(t)
    /\ UNCHANGED <<files, proc, mon>>

\* ------------------------------------------------------------- get_status
\* app.py get_carplay_status -> carplay.get_status() (lines 59-70)
\* A status call that records a failed enumeration as the supervisor's error.
ProbeRecordsError(lsusb) ==
    /\ error_message' = IF lsusb = "lsusb raised" THEN "lsusb failed" ELSE error_message
    /\ UNCHANGED <<is_running, carplay_process, last_status, connected_device>>

\* lines 39-57, 59-70: is_dongle_connected and get_status assign to no field.
Probe(lsusb) == UNCHANGED supervisor

CallGetStatus(t, E) ==
    /\ MayCall(t, E)
    /\ \E lsusb \in LsusbOutputs :
        /\ Probe(lsusb)
        /\ ret' = IF lsusb = "lsusb raised" /\ ~Handled("is_dongle_connected", "exc")
                 THEN [NoRet EXCEPT !.op = "get_status", !.by = t, !.raised = TRUE]
                 ELSE [NoRet EXCEPT !.op = "get_status", !.by = t, !.keys = StatusKeys,
                                    !.status = get_status(lsusb),
                                    !.handle = carplay_process,
                                    !.call.op = "get_status",
                                    !.call.fail = IF lsusb = "lsusb raised"
                                                  THEN "exc" ELSE "none"]
    /\ UNCHANGED <<process_lock, files, proc, pc, call, mon, history>>

\* --------------------------------------------------------- _monitor_output
\* mon[m].pc = "none": no monitor thread was started for process m, or it has ended.
\* line 304
MonGoesOn == is_running /\ carplay_process # NoProc

\* lines 304-305, 311: the loop test ends the thread, or the process is polled
\* and, when it has not exited, its stdout is read from.
MonLoop(m) ==
    /\ Silent
    /\ mon[m].pc = "loop"
    /\ mon' = [mon EXCEPT ![m] =
                  IF ~MonGoesOn THEN NoMon
                  ELSE IF Exited(carplay_process)
                       THEN [NoMon EXCEPT !.pc = "exited", !.target = carplay_process]
                       ELSE [NoMon EXCEPT !.pc = "read", !.target = carplay_process]]
    /\ UNCHANGED <<supervisor, process_lock, files, proc, pc, call, ret, history>>

\* lines 307-309
MonExit(m) ==
    /\ Silent
    /\ mon[m].pc = "exited"
    /\ is_running' = FALSE
    /\ last_status' = "stopped"
    /\ mon' = [mon EXCEPT ![m] = NoMon]
    /\ expected' = (expected /\ mon[m].target # carplay_process)
    /\ UNCHANGED <<carplay_process, connected_device, error_message, process_lock, files,
                   proc, pc, call, ret>>

\* line 311: readline() blocks until the process has written a line, or its
\* stdout is at end of file (b'' is returned and the loop goes round).
MonRead(m, E) ==
    /\ Silent
    /\ mon[m].pc = "read"
    /\ LET h == mon[m].target IN
       \/ /\ Alive(h)
          /\ \E line \in E.lines :
                mon' = [mon EXCEPT ![m] = [NoMon EXCEPT !.pc = "line", !.line = line]]
       \/ /\ Exited(h)
          /\ mon' = [mon EXCEPT ![m] = [NoMon EXCEPT !.pc = "loop"]]
    /\ UNCHANGED <<supervisor, process_lock, files, proc, pc, call, ret, history>>

\* A monitor that looks for the Error marker before the other two.
MarkerErrorFirst(decoded) ==
    IF Contains("Error", decoded) THEN "Error"
    ELSE IF Contains("Connected", decoded) THEN "Connected"
    ELSE IF Contains("Disconnected", decoded) THEN "Disconnected"
    ELSE None

\* lines 317, 320, 323: the branch of the if/elif chain that is taken.
Marker(decoded) ==
    IF Contains("Connected", decoded) THEN "Connected"
    ELSE IF Contains("Disconnected", decoded) THEN "Disconnected"
    ELSE IF Contains("Error", decoded) THEN "Error"
    ELSE None

\* lines 313-324: the line that was read is decoded, stripped and matched;
\* decode() may raise, which ends the thread (line 326).
MonLine(m, E) ==
    /\ Silent
    /\ mon[m].pc = "line"
    /\ \/ LET decoded == strip(decode(mon[m].line)) IN
          /\ mon' = [mon EXCEPT ![m] = [NoMon EXCEPT !.pc = "loop"]]
          /\ CASE Marker(decoded) = "Connected" ->
                    /\ last_status' = "connected"
                    /\ connected_device' = "CarPlay/Android Auto"
                    /\ UNCHANGED error_message
               [] Marker(decoded) = "Disconnected" ->
                    /\ last_status' = "waiting"
                    /\ connected_device' = None
                    /\ UNCHANGED error_message
               [] Marker(decoded) = "Error" ->
                    /\ error_message' = decoded
                    /\ UNCHANGED <<last_status, connected_device>>
               [] OTHER -> UNCHANGED <<last_status, connected_device, error_message>>
       \/ /\ "decode" \in E.faults
          /\ mon' = [mon EXCEPT ![m] = NoMon]
          /\ UNCHANGED <<last_status, connected_device, error_message>>
    /\ UNCHANGED <<is_running, carplay_process, process_lock, files, proc, pc, call, ret,
                   history>>

\* --------------------------------------------------------------- send_key
\* Key names a client sends (app.py line 184 passes them on as they come).
Keys == {"left", "right", "select_down", "select_up", "select", "back", "home",
         "bogus", "SELECT", "Left"}

\* str.lower() on the key names the model sends.
lower(k) ==
    CASE k = "SELECT" -> "select"
      [] k = "Left" -> "left"
      [] OTHER -> k

\* lines 214-222
key_map ==
    [k \in {"left", "right", "select_down", "select_up", "select", "back", "home"} |->
        CASE k = "left" -> KEY_LEFT
          [] k = "right" -> KEY_RIGHT
          [] k = "select_down" -> KEY_SELECT_DOWN
          [] k = "select_up" -> KEY_SELECT_UP
          [] k = "select" -> KEY_SELECT_DOWN
          [] k = "back" -> KEY_BACK
          [] k = "home" -> KEY_HOME]

\* line 224: key_map.get(key_code.lower()); NoCode stands for None.
NoCode == 0
code_of(key_code) ==
    IF lower(key_code) \in DOMAIN key_map THEN key_map[lower(key_code)] ELSE NoCode

\* line 230
IsSelect(key_code) == lower(key_code) = "select"

\* send_key without the second write of line 231.
key_bytesOneWrite(key_code) == <<code_of(key_code)>>

\* lines 229-231: what the two pipe.write calls put in the buffer.
key_bytes(key_code) ==
    <<code_of(key_code)>> \o (IF IsSelect(key_code) THEN <<KEY_SELECT_UP>> ELSE <<>>)

KeyResult(t, key, ok, msg, bytes) ==
    [NoRet EXCEPT !.op = "send_key", !.by = t, !.keys = {"success", "message"},
                  !.success = ok, !.message = msg, !.written = bytes,
                  !.call = [NoCall EXCEPT !.op = "send_key", !.key = key],
                  !.handle = carplay_process]

\* send_key without the test of line 210.
PipeExistsUntested == TRUE

\* line 210: os.path.exists(self.pipe_path)
PipeExists == pipe # "absent"

\* lines 235-236: open or the flush at close has raised.
KeyRaise(t, text) ==
    IF Handled("send_key", "exc")
    THEN [KeyResult(t, call[t].key, FALSE, <<text>>, <<>>) EXCEPT !.call.fail = "exc"]
    ELSE Raised(t)

\* app.py send_carplay_key -> carplay.send_key(key), lines 209-226.
CallSendKey(t, E) ==
    /\ MayCall(t, E)
    /\ \E key \in E.keys :
          IF ~PipeExists
          THEN /\ ret' = KeyResult(t, key, FALSE, <<"Key pipe not available">>, <<>>)
               /\ UNCHANGED <<pc, call>>
          ELSE IF code_of(key) = NoCode
          THEN /\ ret' = KeyResult(t, key, FALSE, <<"Unknown key: ", key>>, <<>>)
               /\ UNCHANGED <<pc, call>>
          ELSE /\ UNCHANGED ret
               /\ call' = [call EXCEPT ![t] = [NoCall EXCEPT !.op = "send_key", !.key = key]]
               /\ pc' = [pc EXCEPT ![t] = "key_open"]
    /\ UNCHANGED <<supervisor, process_lock, files, proc, mon, history>>

\* line 228: open(pipe_path, 'wb').  On a FIFO it blocks until the engine has
\* the read end open; on no file at all it creates a regular file.
KeyOpen(t, E) ==
    /\ Silent
    /\ pc[t] = "key_open"
    /\ \/ /\ pipe = "fifo" => AliveProcs # {}
          /\ pipe' = IF pipe = "absent" THEN "file" ELSE pipe
          /\ pc' = [pc EXCEPT ![t] = "key_write"]
          /\ UNCHANGED <<call, ret>>
       \/ /\ "pipe" \in E.faults
          /\ Return(t, KeyRaise(t, "OSError"))
          /\ UNCHANGED pipe
    /\ UNCHANGED <<supervisor, process_lock, built, settings, proc, mon, history>>

\* lines 229-233: both writes go to the buffer and reach the pipe when the
\* `with` block closes the file; the flush raises when the reader is gone.
KeyWrite(t, E) ==
    /\ Silent
    /\ pc[t] = "key_write"
    /\ \/ /\ pipe = "fifo" => AliveProcs # {}
          /\ Return(t, KeyResult(t, call[t].key, TRUE, <<"Key ", call[t].key, " sent">>,
                                 key_bytes(call[t].key)))
       \/ /\ "pipe" \in E.faults \/ (pipe = "fifo" /\ AliveProcs = {})
          /\ Return(t, KeyRaise(t, "BrokenPipeError"))
    /\ UNCHANGED <<supervisor, process_lock, files, proc, mon, history>>

\* ------------------------------------------------------------ PhoneManager
\* lines 189-197
state_map ==
    [state \in {"incoming", "waiting", "dialing", "alerting", "active", "held",
                "disconnected"} |->
        CASE state \in {"incoming", "waiting"} -> "incoming"
          [] state \in {"dialing", "alerting"} -> "outgoing"
          [] state = "active" -> "active"
          [] state = "held" -> "held"
          [] state = "disconnected" -> "idle"]

\* line 198: state_map.get(state, state)
update_call_state(state) ==
    IF state \in DOMAIN state_map THEN state_map[state] ELSE state

\* The State strings of a call that reach the handlers: those of oFono, one it
\* may add ("unknown"), and "" for a CallAdded without State (line 164).
ReportedStates == DOMAIN state_map \cup {"", "unknown"}

\* lines 216-220
on_device_disconnected(ph) ==
    [ph EXCEPT !.connected_device = None, !.call_state = "idle", !.caller_id = None]

\* lines 87-120: the bus is opened, the receivers are registered and, with GLib,
\* the loop thread is started; SystemBus() or add_signal_receiver() may raise,
\* which is logged.
start_dbus_listener(ph, outcome) ==
    CASE outcome = "registered" ->
            [ph EXCEPT !.bus = TRUE, !.receivers = TRUE,
                       !.loops = IF ph.glib THEN @ + 1 ELSE @]
      [] outcome = "no receivers" -> [ph EXCEPT !.bus = TRUE]
      [] OTHER -> ph

\* lines 62-76
PhoneStart ==
    /\ IF phone.running
       THEN UNCHANGED phone
       ELSE \E k \in Threads, outcome \in {"registered", "no receivers", "no bus"} :
               LET listening == IF phone.linux /\ phone.dbus
                                THEN start_dbus_listener(phone, outcome)
                                ELSE phone
               IN  /\ phone.poll[k] = "none"
                   /\ \A j \in Threads : j < k => phone.poll[j] # "none"
                   /\ listening.loops <= MaxThreads
                   /\ phone' = [listening EXCEPT !.running = TRUE, !.poll[k] = "test"]
    /\ UNCHANGED <<carplay, bluetooth>>

\* lines 78-83: join(timeout=2) waits for the loop thread or gives up.
PhoneStop ==
    /\ phone' = [phone EXCEPT !.running = FALSE]
    /\ UNCHANGED <<carplay, bluetooth>>

\* line 126: a loop thread finds running false and ends.
GlibLoopEnd ==
    /\ phone.loops > 0
    /\ ~phone.running
    /\ phone' = [phone EXCEPT !.loops = @ - 1]
    /\ UNCHANGED <<carplay, bluetooth>>

\* lines 126-129: a loop thread is there to call the registered receivers.
Dispatching == phone.receivers /\ phone.loops > 0

\* lines 161-177: CallAdded, with or without State and LineIdentification.
HandleOfonoCall ==
    /\ Dispatching
    /\ \E state \in ReportedStates, line_identification \in {None, "5550100"} :
          phone' = [phone EXCEPT !.call_state = update_call_state(state),
                                 !.caller_id = IF line_identification # None
                                               THEN line_identification ELSE @]
    /\ UNCHANGED <<carplay, bluetooth>>

\* lines 179-185: CallRemoved
HandleOfonoCallRemoved ==
    /\ Dispatching
    /\ phone' = [phone EXCEPT !.call_state = "idle", !.caller_id = None]
    /\ UNCHANGED <<carplay, bluetooth>>

\* PropertiesChanged signals: the interface, the property that changed and its
\* new value.
Changes ==
    {[interface |-> "org.ofono.VoiceCall", key |-> "State", value |-> state] :
        state \in ReportedStates \ {""}}
    \cup {[interface |-> "org.ofono.VoiceCall", key |-> "LineIdentification",
           value |-> "5550100"],
          [interface |-> "org.bluez.Device1", key |-> "Connected", value |-> "true"],
          [interface |-> "org.bluez.Device1", key |-> "Connected", value |-> "false"],
          [interface |-> "org.bluez.Adapter1", key |-> "Discovering", value |-> "true"]}

\* lines 133-159, 201-212: props.Get may raise, which is logged.
HandlePropertyChanged ==
    /\ Dispatching
    /\ \E changed \in Changes, address \in {"AA:BB:CC:DD:EE:FF", "props.Get raised"} :
          phone' =
             IF changed.interface = "org.ofono.VoiceCall"
             THEN IF changed.key = "State"
                  THEN [phone EXCEPT !.call_state = update_call_state(changed.value)]
                  ELSE IF changed.key = "LineIdentification"
                  THEN [phone EXCEPT !.caller_id = changed.value]
                  ELSE phone
             ELSE IF changed.interface = "org.bluez.Device1" /\ changed.key = "Connected"
             THEN IF changed.value = "true"
                  THEN IF phone.bus /\ address # "props.Get raised"
                       THEN [phone EXCEPT !.connected_device = address]
                       ELSE phone
                  ELSE on_device_disconnected(phone)
             ELSE phone
    /\ UNCHANGED <<carplay, bluetooth>>

\* line 226: the loop test of a poller thread.
PollTest(k) ==
    /\ phone.poll[k] = "test"
    /\ phone' = [phone EXCEPT !.poll[k] = IF phone.running THEN "check" ELSE "none"]
    /\ UNCHANGED <<carplay, bluetooth>>

\* What `bluetoothctl devices Connected` prints, or that the call raised.
BluetoothctlOutputs == {"Device AA:BB:CC:DD:EE:FF Pixel 7", "Device AA:BB:CC:DD:EE:FF", "",
                        "bluetoothctl raised"}
\* line 250
StartsWith(line, prefix) ==
    Len(line) >= Len(prefix) /\ SubSeq(line, 1, Len(prefix)) = prefix
\* line 251: line.split(" ", 2), of which parts[1] is taken when there are three.
Spaces(line) == {i \in 1..Len(line) : SubSeq(line, i, i) = " "}
HasThreeParts(line) == Cardinality(Spaces(line)) >= 2
SecondPart(line) ==
    LET first == CHOOSE i \in Spaces(line) : \A j \in Spaces(line) : i <= j
        second == CHOOSE i \in Spaces(line) \ {first} :
                     \A j \in Spaces(line) \ {first} : i <= j
    IN  SubSeq(line, first + 1, second - 1)

\* lines 234-263
check_connection_status(ph, output) ==
    IF ~ph.linux \/ output = "bluetoothctl raised" THEN ph
    ELSE IF StartsWith(output, "Device ") /\ HasThreeParts(output)
    THEN [ph EXCEPT !.connected_device = SecondPart(output)]
    ELSE IF ph.connected_device # None THEN on_device_disconnected(ph)
    ELSE ph

\* lines 228-229
PollCheck(k) ==
    /\ phone.poll[k] = "check"
    /\ \E output \in BluetoothctlOutputs :
          phone' = [check_connection_status(phone, output) EXCEPT !.poll[k] = "sleep"]
    /\ UNCHANGED <<carplay, bluetooth>>

\* line 229: time.sleep(2) is over.
PollSleep(k) ==
    /\ phone.poll[k] = "sleep"
    /\ phone' = [phone EXCEPT !.poll[k] = "test"]
    /\ UNCHANGED <<carplay, bluetooth>>

\* lines 323-346: _try_ofono_command returns False (line 413); dbus-send is run,
\* which may raise.
HangupCall ==
    /\ phone.linux
    /\ \E raised \in BOOLEAN :
          phone' = IF raised THEN phone ELSE [phone EXCEPT !.call_state = "idle"]
    /\ UNCHANGED <<carplay, bluetooth>>

\* line 358: the characters of a number that are kept.
Dialable == {"0", "1", "2", "3", "4", "5", "6", "7", "8", "9", "+", "*", "#"}
RECURSIVE clean(_)
clean(number) ==
    IF Len(number) = 0 THEN number
    ELSE IF SubSeq(number, 1, 1) \in Dialable
         THEN SubSeq(number, 1, 1) \o clean(SubSeq(number, 2, Len(number)))
         ELSE clean(SubSeq(number, 2, Len(number)))

\* lines 348-383: oFono has a modem and dials, or has none, or raises.
DialNumber ==
    /\ phone.linux
    /\ \E number \in {"", "555-0100"}, dialled \in BOOLEAN :
          phone' = IF number # "" /\ phone.dbus /\ phone.bus /\ dialled
                   THEN [phone EXCEPT !.call_state = "outgoing",
                                      !.caller_id = clean(number)]
                   ELSE phone
    /\ UNCHANGED <<carplay, bluetooth>>

\* -------------------------------------------------------- BluetoothManager
\* The address of the request (app.py line 121: data.get('address'), None when
\* the key is missing).
Addresses == {None, "AA:BB:CC:DD:EE:FF", "00:11:22:33:44:55"}

\* lines 52-57: what subprocess.run does with the command: it raises on an
\* argument that is None, and otherwise runs bluetoothctl, which connects, fails,
\* or is not there or times out.
ConnectOutcomes(device_address) ==
    IF device_address = None THEN {"raised"} ELSE {"connected", "failed", "raised"}

\* lines 48-70
BtConnect ==
    /\ \E device_address \in Addresses :
       \E outcome \in ConnectOutcomes(device_address) :
          bluetooth' = IF outcome = "failed" THEN bluetooth
                       ELSE [connected_device |-> device_address,
                             is_connected_flag |-> TRUE]
    /\ UNCHANGED <<carplay, phone>>

\* lines 72-90: both paths clear the two fields.
BtDisconnect ==
    /\ bluetooth' = [connected_device |-> None, is_connected_flag |-> FALSE]
    /\ UNCHANGED <<carplay, phone>>

\* line 92
is_connected == bluetooth.is_connected_flag

\* ------------------------------------------------------- specifications
\* The lifecycle as one request thread at a time drives it, with everything that
\* can go wrong going wrong: the calls, the monitors, the external program.
Everything ==
    [callers |-> {"c1"}, configs |-> Configs, stderrs |-> Stderrs, lines |-> Lines,
     faults |-> Faults, keys |-> {}]

Lifecycle(E) ==
    \/ Deliver
    \/ BuildEngine
    \/ \E p \in Procs : ProcExit(p)
    \/ \E t \in Callers : CallStart(t, E)
    \/ \E t \in Callers : StartCheck(t)
    \/ \E t \in Callers : StartWrite(t, E)
    \/ \E t \in Callers : StartSpawn(t, E)
    \/ \E t \in Callers : StartGrace(t, E)
    \/ \E t \in Callers : StartRet(t)
    \/ \E t \in Callers : StartFailRet(t)
    \/ \E t \in Callers : CallStop(t, E)
    \/ \E t \in Callers : CallRestart(t, E)
    \/ \E t \in Callers : StopCheck(t)
    \/ \E t \in Callers : StopTerm(t, E)
    \/ \E t \in Callers : StopWait(t, E)
    \/ \E t \in Callers : StopKillWait(t, E)
    \/ \E t \in Callers : CallGetStatus(t, E)
    \/ \E m \in Procs : MonLoop(m)
    \/ \E m \in Procs : MonExit(m)
    \/ \E m \in Procs : MonRead(m, E)
    \/ \E m \in Procs : MonLine(m, E)

Next == Lifecycle(Everything)

Spec == Init /\ [][Next]_vars

\* The lifecycle when terminate/wait/kill do what they are asked and the program
\* prints plain lines and error lines.
Graceful ==
    [Everything EXCEPT !.faults = Faults \ {"stop"},
                       !.lines = {"Error: usb reset\n", "frame ok\n"}]

NextGraceful == Lifecycle(Graceful)

SpecGraceful == Init /\ [][NextGraceful]_vars

\* Keys are sent while the engine comes and goes, and its pipe with it.
Keyboard ==
    [callers |-> {"c1"}, configs |-> {DefaultConfig}, stderrs |-> {NoBytes},
     lines |-> {"frame ok\n"}, faults |-> {"pipe"}, keys |-> Keys]

NextKeys ==
    \/ Lifecycle(Keyboard)
    \/ \E p \in Procs : ProcCreatePipe(p)
    \/ PipeUnlink
    \/ \E t \in Callers : CallSendKey(t, Keyboard)
    \/ \E t \in Callers : KeyOpen(t, Keyboard)
    \/ \E t \in Callers : KeyWrite(t, Keyboard)

SpecKeys == Init /\ [][NextKeys]_vars

\* Two request threads at a time, in the plainest environment: the default
\* configuration and the other one, no fault but a death in the grace period.
Concurrent ==
    [callers |-> Callers, configs |-> Configs, stderrs |-> {NoBytes},
     lines |-> {"frame ok\n"}, faults |-> {}, keys |-> {}]

NextConcurrent == Lifecycle(Concurrent)

SpecConcurrent == Init /\ [][NextConcurrent]_vars

\* The whole control surface with every fault of the public operations, one
\* configuration and two keys; the pipe, once made, stays.
Surface ==
    [callers |-> {"c1"}, configs |-> {DefaultConfig}, stderrs |-> {NoBytes, BadBytes},
     lines |-> {"frame ok\n"}, faults |-> Faults \ {"decode"}, keys |-> {"select", "bogus"}]

NextSurface ==
    \/ Lifecycle(Surface)
    \/ \E p \in Procs : ProcCreatePipe(p)
    \/ \E t \in Callers : CallSendKey(t, Surface)
    \/ \E t \in Callers : KeyOpen(t, Surface)
    \/ \E t \in Callers : KeyWrite(t, Surface)

SpecSurface == Init /\ [][NextSurface]_vars

\* The monitor thread on every kind of stdout line, bytes that do not decode
\* included.
Monitoring ==
    [callers |-> {"c1"}, configs |-> {DefaultConfig}, stderrs |-> {NoBytes},
     lines |-> Lines, faults |-> {"decode"}, keys |-> {}]

\* Clients that start and stop only.
StartStop(E) ==
    \/ Deliver
    \/ BuildEngine
    \/ \E p \in Procs : ProcExit(p)
    \/ \E t \in Callers : CallStart(t, E)
    \/ \E t \in Callers : StartCheck(t)
    \/ \E t \in Callers : StartWrite(t, E)
    \/ \E t \in Callers : StartSpawn(t, E)
    \/ \E t \in Callers : StartGrace(t, E)
    \/ \E t \in Callers : StartRet(t)
    \/ \E t \in Callers : StartFailRet(t)
    \/ \E t \in Callers : CallStop(t, E)
    \/ \E t \in Callers : StopCheck(t)
    \/ \E t \in Callers : StopTerm(t, E)
    \/ \E t \in Callers : StopWait(t, E)
    \/ \E t \in Callers : StopKillWait(t, E)
    \/ \E m \in Procs : MonLoop(m)
    \/ \E m \in Procs : MonExit(m)
    \/ \E m \in Procs : MonRead(m, E)
    \/ \E m \in Procs : MonLine(m, E)

NextMonitor == StartStop(Monitoring)

\* Two request threads: one starts and stops, and both ask for the status and
\* send keys, the second of them while the first is in a call.
Readers ==
    [callers |-> Callers, configs |-> {DefaultConfig}, stderrs |-> {NoBytes},
     lines |-> {"frame ok\n"}, faults |-> {"pipe"}, keys |-> {"select", "bogus"}]
Starter == [Readers EXCEPT !.callers = {"c1"}]

NextReaders ==
    \/ StartStop(Starter)
    \/ \E p \in Procs : ProcCreatePipe(p)
    \/ \E t \in Callers : CallGetStatus(t, Readers)
    \/ \E t \in Callers : CallSendKey(t, Readers)
    \/ \E t \in Callers : KeyOpen(t, Readers)
    \/ \E t \in Callers : KeyWrite(t, Readers)

SpecReaders == Init /\ [][NextReaders]_vars

\* The phone manager and the Bluetooth manager with their threads, the signals
\* of the bus and the calls of their clients.
NextPhone ==
    \/ PhoneStart
    \/ PhoneStop
    \/ GlibLoopEnd
    \/ HandleOfonoCall
    \/ HandleOfonoCallRemoved
    \/ HandlePropertyChanged
    \/ \E k \in Threads : PollTest(k)
    \/ \E k \in Threads : PollCheck(k)
    \/ \E k \in Threads : PollSleep(k)
    \/ HangupCall
    \/ DialNumber
    \/ BtConnect
    \/ BtDisconnect

SpecPhone == InitPhone /\ [][NextPhone]_vars

SpecMonitor == Init /\ [][NextMonitor]_vars

\* The steps of the monitor thread of process m, and the steps of a call that
\* is in progress.
Monitor(m, E) == MonLoop(m) \/ MonExit(m) \/ MonRead(m, E) \/ MonLine(m, E)
InCall(t, E) ==
    \/ StartCheck(t) \/ StartWrite(t, E) \/ StartSpawn(t, E) \/ StartGrace(t, E)
    \/ StartRet(t) \/ StartFailRet(t)
    \/ StopCheck(t) \/ StopTerm(t, E) \/ StopWait(t, E) \/ StopKillWait(t, E)

\* Threads that are scheduled fairly: every monitor thread and every call in
\* progress goes on; the clients and the external program are free.  A step of
\* a thread is disabled only while a result is being handed to the client
\* (ret # NoRet), which Deliver ends: the fairness is strong so that this gap
\* does not count as the thread having been stopped.
Calm ==
    [callers |-> {"c1"}, configs |-> {DefaultConfig}, stderrs |-> {NoBytes},
     lines |-> {"frame ok\n"}, faults |-> {}, keys |-> {}]

NextFair == StartStop(Calm)

SpecFair ==
    /\ Init /\ [][NextFair]_vars
    /\ \A m \in Procs : SF_vars(Monitor(m, Calm))
    /\ \A t \in Callers : SF_vars(InCall(t, Calm))
    /\ WF_vars(Deliver)

\* Two request threads that contend for the lock, with every fault of start()
\* and stop().  A thread in a call goes on, and gets the lock when it is free
\* again and again (strong fairness: threading.Lock hands it to some waiter); a
\* killed process exits.
Contended ==
    [callers |-> Callers, configs |-> {DefaultConfig}, stderrs |-> {NoBytes},
     lines |-> {"frame ok\n"}, faults |-> {"popen", "stop"}, keys |-> {}]

KilledExits == \E p \in Procs : proc[p] = "killed" /\ ProcExit(p)

NextContended ==
    \/ StartStop(Contended)
    \/ \E t \in Callers : CallRestart(t, Contended)

SpecContended ==
    /\ Init /\ [][NextContended]_vars
    /\ \A t \in Callers : SF_vars(InCall(t, Contended))
    /\ SF_vars(KilledExits)
    /\ WF_vars(Deliver)

\* ------------------------------------------------------------- properties
\* No start(), stop() or restart() is in progress.
Quiescent == \A t \in Callers : pc[t] \notin {"start_lock", "start_write", "start_spawn",
                                               "start_grace", "start_ret", "start_fail_ret",
                                               "stop_lock", "stop_term", "stop_wait",
                                               "stop_killwait"}
\* The result in hand is that of a start() (restart() ends in one).
StartReturned == ret.op \in {"start", "restart"}
\* The result in hand is that of a stop().
StopReturned == ret.op = "stop"

\* C1: at most one spawned external process is alive in every reachable state.
AtMostOneProcessAlive == Cardinality(AliveProcs) <= 1

\* C2: whenever no lifecycle operation is in progress, is_running is true exactly
\* when the lifecycle operation that completed last was a successful start() and
\* neither a stop() nor an exit of its process seen by the monitor has followed.
RunningIffLastStartSucceeded == Quiescent => (is_running <=> expected)

\* C3: whenever no start() or stop() is in its locked body, the process handle is
\* set exactly when is_running is true.
HandleIffRunning == process_lock = None => (carplay_process # NoProc <=> is_running)

\* C4: a start() that finds is_running true under the lock returns success in that
\* step, with no process spawned, no monitor launched, the settings file as it was
\* and is_running, last_status, connected_device, error_message and the handle
\* unchanged.
StartWhileRunningIsNoOp ==
    [][\A t \in Callers :
          (pc[t] = "start_lock" /\ process_lock = None /\ is_running
                                /\ pc'[t] # "start_lock")
          => /\ pc'[t] = "idle"
             /\ ret'.by = t
             /\ ret'.success
             /\ ret'.call.spawned = NoProc
             /\ ret'.call.launched = 0
             /\ UNCHANGED <<supervisor, settings, proc, mon>>]_vars
StartWhileRunningReturned ==
    /\ StartReturned
    /\ ret.message = <<"CarPlay already running">>
    /\ ret.status.running

\* C5: a stop() that finds is_running false under the lock returns in that step,
\* with success, and no signal is delivered to any process.
StopWhileNotRunningSendsNoSignal ==
    [][\A t \in Callers :
          (pc[t] = "stop_lock" /\ process_lock = None /\ ~is_running
                               /\ pc'[t] # "stop_lock")
          => /\ pc'[t] \in {"idle", "start_lock"}
             /\ call[t].op = "stop" => (ret'.by = t /\ ret'.op = "stop" /\ ret'.success)
             /\ signal' = NoSignal
             /\ proc' = proc]_vars
StopWhileNotRunningReturned ==
    /\ StopReturned
    /\ ret.message = <<"CarPlay was not running">>
    /\ signal = NoSignal

\* C6: on every return of stop() the state has is_running false, no handle, no
\* connected device, no error message and last_status "stopped".
StopClearsEverything ==
    StopReturned =>
        /\ ~ret.status.running
        /\ ret.handle = NoProc
        /\ ret.status.connected_device = None
        /\ ret.status.error = None
        /\ ret.status.status = "stopped"

\* C7: whenever stop() returns it reports success and no external process is alive.
StopLeavesNoProcessAlive == StopReturned => (ret.success /\ AliveProcs = {})

\* C8: a start() that finds the executable missing (is_running being false) returns
\* failure in that step, is_running stays false, nothing is written, spawned or
\* launched, and last_status, connected_device, error_message and the handle are
\* unchanged.
StartNotBuiltHasNoEffect ==
    [][\A t \in Callers :
          (pc[t] = "start_lock" /\ process_lock = None /\ ~is_running /\ ~built
                                /\ pc'[t] # "start_lock")
          => /\ pc'[t] = "idle"
             /\ ret'.by = t
             /\ ~ret'.success
             /\ ~is_running'
             /\ ret'.call.spawned = NoProc
             /\ ret'.call.launched = 0
             /\ UNCHANGED <<supervisor, settings, proc, mon>>]_vars
StartNotBuiltReturned ==
    /\ StartReturned
    /\ ret.message = <<"FastCarPlay not built. Run build script first.">>
    /\ ~ret.success
    /\ ~ret.status.built

\* The process that start() spawned had exited at the end of the grace period.
DiedInGrace == StartReturned /\ ret.call.stderr # None
\* The text is part of the message.
InMessage(text) == text = "" \/ \E i \in DOMAIN ret.message : ret.message[i] = text

\* C9 as stated: after a death in the grace period start() returns failure, the
\* message holds the captured error text, that text is what was stored as
\* error_message, is_running is false and no monitor was launched.
StartDiedReportsCapturedText ==
    DiedInGrace =>
        /\ ~ret.success
        /\ InMessage(ret.call.stderr)
        /\ ret.call.stored = ret.call.stderr
        /\ ~ret.status.running
        /\ ret.call.launched = 0

\* C9: after a death in the grace period start() returns failure, is_running is
\* false and no monitor was launched.  What it stored as error_message is the
\* captured stderr text, the fixed text when stderr was empty, the decoding
\* error's text when stderr was not UTF-8.  The message is that error text alone
\* in the last case, and otherwise the prefix followed by error_message as it
\* reads when the result is built.
StartDiedReport ==
    DiedInGrace =>
        /\ ~ret.success
        /\ ~ret.status.running
        /\ ret.call.launched = 0
        /\ ret.call.stored =
              CASE ret.call.stderr = NoBytes -> "Process terminated unexpectedly"
                [] ret.call.stderr = BadBytes -> "UnicodeDecodeError"
                [] OTHER -> ret.call.stderr
        /\ ret.message =
              IF ret.call.stderr = BadBytes
              THEN <<"UnicodeDecodeError">>
              ELSE <<"CarPlay failed to start: ", ret.status.error>>
StartDiedWithEmptyStderr ==
    /\ DiedInGrace
    /\ ret.call.stderr = NoBytes
    /\ ret.status.error = "Process terminated unexpectedly"

\* The fixed vocabulary of key bytes.
Vocabulary ==
    [k \in {"left", "right", "select_down", "select_up", "back", "home", "select"} |->
        CASE k = "left" -> <<100>>
          [] k = "right" -> <<101>>
          [] k = "select_down" -> <<104>>
          [] k = "select_up" -> <<105>>
          [] k = "back" -> <<106>>
          [] k = "home" -> <<200>>
          [] k = "select" -> <<104, 105>>]

\* C10: a send_key that succeeds has written exactly the bytes the vocabulary
\* gives for the key name (select: 104 then 105), and one that fails has written
\* nothing.
SendKeyWritesVocabulary ==
    ret.op = "send_key" =>
        IF ret.success
        THEN /\ lower(ret.call.key) \in DOMAIN Vocabulary
             /\ ret.written = Vocabulary[lower(ret.call.key)]
        ELSE ret.written = <<>>
SelectSent ==
    /\ ret.op = "send_key"
    /\ ret.success
    /\ ret.call.key = "select"
    /\ ret.written = <<104, 105>>

\* The key name is one of the vocabulary, in any case of letters.
Recognized(key) == lower(key) \in DOMAIN Vocabulary
\* Caller t's send_key has returned in this step, from its checks.
SendKeyRefused(t) == pc[t] = "idle" /\ ret = NoRet /\ ret'.by = t /\ ret'.op = "send_key"
\* Caller t's send_key has got past its checks in this step.
SendKeyAdmitted(t) == pc[t] = "idle" /\ pc'[t] = "key_open"

\* C11 as stated: send_key gets past its checks only when the pipe exists, the key
\* name is recognized and the supervised process is running; otherwise it returns
\* failure at once and writes nothing.
SendKeyFailsUnlessRunning ==
    [][\A t \in Callers :
          /\ SendKeyAdmitted(t) =>
                (pipe # "absent" /\ Recognized(call'[t].key) /\ is_running)
          /\ SendKeyRefused(t) => (~ret'.success /\ ret'.written = <<>> /\ pipe' = pipe)]_vars

\* C11: send_key returns failure at once and writes nothing when the pipe does
\* not exist at its check or the key name is not recognized, and only then;
\* whether the supervised process is running plays no part.
SendKeyFailsWithoutPipeOrKey ==
    [][\A t \in Callers :
          /\ SendKeyAdmitted(t) => (pipe # "absent" /\ Recognized(call'[t].key))
          /\ SendKeyRefused(t) =>
                /\ pipe = "absent" \/ ~Recognized(ret'.call.key)
                /\ ~ret'.success
                /\ ret'.written = <<>>
                /\ pipe' = pipe]_vars
SendKeyRefusedNoPipe ==
    /\ ret.op = "send_key"
    /\ ret.message = <<"Key pipe not available">>
    /\ ~ret.success
    /\ pipe = "absent"

\* C12: restart() leaves what stop() followed by start() with the arguments of
\* the preceding start would leave; the settings file, which holds the rendering
\* of those arguments, is written again with the same content.
RestartKeepsConfiguration ==
    [][\A t \in Callers :
          (call[t].op = "restart" /\ pc[t] = "start_write" /\ pc'[t] = "start_spawn"
                                  /\ settings.exists)
          => settings' = settings]_vars

\* Caller t is in the locked body of start() or stop().
InBody(t) == pc[t] \in {"start_write", "start_spawn", "start_grace", "start_ret",
                        "start_fail_ret", "stop_term", "stop_wait", "stop_killwait"}
\* Caller t's restart() is in progress: its stop() has taken the lock and its
\* start() has not returned yet.
Restarting(t) == call[t].op = "restart" /\ pc[t] \notin {"idle", "stop_lock"}

\* C13: no two callers are in a start/stop body at the same time, and while one
\* caller's restart() is in progress no other caller is in one.
RestartExcludesOthers ==
    \A t, u \in Callers :
        t # u => /\ ~(InBody(t) /\ InBody(u))
                 /\ ~(Restarting(t) /\ InBody(u))

\* C14 as stated: the result of every operation of the control surface carries
\* success, message and status.
EveryResultHasThreeFields ==
    ret.op # "none" => {"success", "message", "status"} \subseteq ret.keys

\* C14: the result of start(), stop() and restart() carries success, message and
\* status on every path; that of send_key carries success and message only; that
\* of get_status is the bare snapshot.
ResultShapes ==
    /\ ret.op \in {"start", "stop", "restart"} =>
          ret.keys = {"success", "message", "status"}
    /\ ret.op = "send_key" => ret.keys = {"success", "message"}
    /\ ret.op = "get_status" =>
          ret.keys = {"running", "built", "status", "connected_device", "dongle_detected",
                      "error", "executable_path", "settings_path"}
SendKeyFailedWithoutStatus ==
    /\ ret.op = "send_key"
    /\ ~ret.success
    /\ ret.call.fail = "exc"
    /\ "status" \notin ret.keys

\* C15: no fault leaves a public operation as an exception: every call returns a
\* result, and a start() or send_key in which a step has failed returns
\* success = false with a message.
NoFaultEscapes ==
    ret.op # "none" =>
        /\ ~ret.raised
        /\ ret.keys # {}
        /\ (ret.op \in {"start", "restart", "send_key"} /\ ret.call.fail # "none") =>
              (~ret.success /\ ret.message # <<>> /\ {"success", "message"} \subseteq ret.keys)
StartFaultReturned ==
    /\ ret.op = "start"
    /\ ret.call.fail = "exc"
    /\ ret.message = <<"OSError">>
    /\ ~ret.success
    /\ ~ret.raised

\* Caller t's start() is at the end of the grace period and polls in this step.
GracePoll(t) == pc[t] = "start_grace" /\ pc'[t] # "start_grace"
\* The result in hand is that of a start() that found its process alive.
StartSucceeded == StartReturned /\ ret.message = <<"CarPlay started successfully">>

\* C16 as stated: a start() that found its process alive returns success, and
\* what it returns shows running = true, lastStatus = running and no error
\* message, one monitor having been launched.
StartSuccessSnapshot ==
    StartSucceeded =>
        /\ ret.success
        /\ ret.status.running
        /\ ret.status.status = "running"
        /\ ret.status.error = None
        /\ ret.call.launched = 1

\* C16: in the step in which start() finds the spawned process alive after the
\* grace period (and only then) it sets is_running, sets last_status to
\* "running", clears error_message and launches one monitor, for that process
\* and no other; the call then returns success, with that one monitor launched.
StartAliveMarksRunning ==
    [][\A t \in Callers :
          /\ GracePoll(t) =>
                IF Alive(carplay_process)
                THEN /\ pc'[t] = "start_ret"
                     /\ is_running'
                     /\ last_status' = "running"
                     /\ error_message' = None
                     /\ call'[t].launched = call[t].launched + 1
                     /\ mon'[carplay_process].pc = "loop"
                     /\ \A m \in Procs \ {carplay_process} : mon'[m] = mon[m]
                     /\ carplay_process' = call[t].spawned
                ELSE pc'[t] # "start_ret" /\ mon' = mon
          /\ (pc[t] = "start_ret" /\ pc'[t] = "idle") =>
                (ret'.by = t /\ ret'.success /\ ret'.call.launched = 1)]_vars
StartSucceededRunning ==
    /\ StartSucceeded
    /\ ret.status.running
    /\ ret.call.launched = 1
    /\ mon[ret.call.spawned].pc # "none"

\* The settings file as a call with configuration cfg is to leave it.
Rendered(cfg) ==
    [exists |-> TRUE, complete |-> TRUE, width |-> cfg.width, height |-> cfg.height,
     fullscreen |-> IF cfg.fullscreen THEN "true" ELSE "false",
     key_pipe_path |-> "/tmp/fastcarplay_pipe"]

\* C17: a start() writes the whole settings file from its own arguments, then
\* spawns with the file still reading so and no monitor launched for the new
\* process yet, and launches the monitor only for a process it has spawned; no
\* two calls are at the writing of the file at the same time.
SettingsThenSpawnThenMonitor ==
    [][\A t \in Callers :
          /\ (pc[t] = "start_write" /\ pc'[t] = "start_spawn") =>
                settings' = Rendered(call[t].cfg)
          /\ (pc[t] = "start_spawn" /\ pc'[t] = "start_grace") =>
                /\ settings = Rendered(call[t].cfg)
                /\ settings' = settings
                /\ call[t].launched = 0
                /\ mon'[call'[t].spawned].pc = "none"
          /\ (pc[t] = "start_grace" /\ pc'[t] = "start_ret") =>
                /\ call[t].spawned # NoProc
                /\ settings = Rendered(call[t].cfg)
          /\ \A u \in Callers \ {t} : ~(pc[t] = "start_write" /\ pc[u] = "start_write")]_vars
SpawnedWindowed ==
    \E t \in Callers :
        /\ pc[t] = "start_grace"
        /\ ~call[t].cfg.fullscreen
        /\ settings.fullscreen = "false"
        /\ \E u \in Callers \ {t} : pc[u] = "start_lock"

\* C18: stop() sends SIGTERM from its terminate step only, to the supervised
\* process; SIGKILL goes out only after that step, from the wait that follows
\* it, and only to a process that has not exited; when the process has exited at
\* the wait no force-kill is attempted; and once a force-kill was attempted
\* stop() goes on only when the process has exited.  Stated for the calls in
\* which terminate(), wait() and kill() do not raise (SpecGraceful).
SignalsInOrder ==
    [][/\ signal'.sig = "term" =>
             \E t \in Callers : /\ pc[t] = "stop_term" /\ pc'[t] = "stop_wait"
                                /\ signal'.to = carplay_process
       /\ signal'.sig = "kill" =>
             \E t \in Callers : /\ pc[t] = "stop_wait" /\ pc'[t] = "stop_killwait"
                                /\ signal'.to = carplay_process
                                /\ Alive(carplay_process)
       /\ \A t \in Callers :
             /\ (pc[t] = "stop_term" /\ pc'[t] = "stop_wait" /\ Alive(carplay_process)) =>
                   signal' = [to |-> carplay_process, sig |-> "term"]
             /\ (pc[t] = "stop_wait" /\ pc'[t] # "stop_wait" /\ Exited(carplay_process)) =>
                   (signal' = NoSignal /\ pc'[t] # "stop_killwait")
             /\ (pc[t] = "stop_killwait" /\ pc'[t] # "stop_killwait") =>
                   (Exited(carplay_process) /\ AliveProcs' = AliveProcs)]_vars
ForceKilled ==
    /\ signal.sig = "kill"
    /\ \E t \in Callers : pc[t] = "stop_killwait"
    /\ proc[signal.to] = "killed"

\* C19: a line the monitor has read and decoded changes the supervisor by its
\* first marker, Connected before Disconnected before Error: Connected gives
\* last_status "connected" and a device name; Disconnected gives "waiting" and
\* no device; Error stores the line and leaves the other two; a line with both
\* Connected and Error leaves error_message alone; any other line changes
\* nothing.
MonitorParsesByPriority ==
    [][\A m \in Procs :
          (mon[m].pc = "line" /\ mon'[m].pc = "loop") =>
             LET line == mon[m].line IN
             /\ line \in {"Phone Connected\n", "Error: Connected twice\n"} =>
                   /\ last_status' = "connected"
                   /\ connected_device' \notin {None, ""}
                   /\ error_message' = error_message
             /\ line = "Phone Disconnected\n" =>
                   /\ last_status' = "waiting"
                   /\ connected_device' = None
                   /\ error_message' = error_message
             /\ line = "Error: usb reset\n" =>
                   /\ error_message' = "Error: usb reset"
                   /\ last_status' = last_status
                   /\ connected_device' = connected_device
             /\ line = "frame ok\n" =>
                   /\ error_message' = error_message
                   /\ last_status' = last_status
                   /\ connected_device' = connected_device]_vars
MonitorSawConnected ==
    /\ last_status = "connected"
    /\ connected_device = "CarPlay/Android Auto"
    /\ error_message = None
    /\ \E m \in Procs : mon[m].pc = "loop"

\* C20: when the supervised process has exited on its own while is_running is
\* true, eventually is_running is false with last_status "stopped", and
\* eventually the monitor thread of that process has ended; and after stop() has
\* returned, the monitor thread of each process that has exited eventually ends.
ExitedOnItsOwn(p) ==
    /\ is_running
    /\ carplay_process = p
    /\ Exited(p)
    /\ \A t \in Callers : pc[t] = "idle"
ExitIsNoticed ==
    \A p \in Procs : ExitedOnItsOwn(p) ~> (~is_running /\ last_status = "stopped")
MonitorEndsAfterExit ==
    \A p \in Procs : ExitedOnItsOwn(p) ~> (mon[p].pc = "none")
MonitorEndsAfterStop ==
    \A p \in Procs : (StopReturned /\ Exited(p) /\ mon[p].pc # "none") ~> (mon[p].pc = "none")
MonitorEventuallyEnds ==
    /\ ExitIsNoticed
    /\ MonitorEndsAfterExit
    /\ MonitorEndsAfterStop

\* C21: every monitor thread polls and reads only the process it was started
\* for, and no two monitor threads that are going poll or read the same process.
OneMonitorPerProcess ==
    /\ \A m \in Procs : mon[m].target \in {NoProc, m}
    /\ \A m, n \in Procs :
          (m # n /\ mon[m].pc # "none" /\ mon[n].pc # "none" /\ mon[m].target # NoProc) =>
             mon[m].target # mon[n].target

\* C22: no step of get_status() or of send_key(), on any of their paths, changes
\* is_running, last_status, connected_device, error_message, the process handle
\* or the lock; they go on while another caller holds the lock.
Reading ==
    \/ ret' # ret /\ ret'.op \in {"get_status", "send_key"}
    \/ \E t \in Callers : pc'[t] # pc[t] /\ "send_key" \in {call[t].op, call'[t].op}
ReadersChangeNothing ==
    [][Reading => (supervisor' = supervisor /\ process_lock' = process_lock)]_vars
KeySentDuringLockedBody ==
    /\ ret.op = "send_key"
    /\ ret.success
    /\ process_lock \notin {None, ret.by}

\* C23: while the phone manager's D-Bus receivers are registered and a loop
\* thread dispatches to them, no poller thread is going.
LivePollers == {k \in Threads : phone.poll[k] # "none"}
OneEventSource == Dispatching => LivePollers = {}

\* C24: at most one poller thread of the phone manager is going at any time.
AtMostOnePoller == Cardinality(LivePollers) <= 1

\* C25: there is no state in which a start() has returned success, the process
\* the supervisor holds is alive, and is_running is false.
MonitorStopsOnlyItsOwn ==
    (StartReturned /\ ret.success /\ Alive(carplay_process)) => is_running

\* C26: from the state stop() returns into (everything cleared, no process held)
\* and for as long as no caller is in a call, no step changes last_status from
\* "stopped" or connected_device and error_message from None.
Cleared ==
    /\ ~is_running
    /\ carplay_process = NoProc
    /\ last_status = "stopped"
    /\ connected_device = None
    /\ error_message = None
    /\ \A t \in Callers : pc[t] = "idle"
StoppedStaysCleared ==
    [][Cleared => (last_status' = "stopped" /\ connected_device' = None
                   /\ error_message' = None)]_vars

\* C27: whenever no start() or stop() is in progress and no monitor thread is
\* between its poll or its read and what it does with the outcome,
\* connected_device is set only if is_running is true and last_status is
\* "connected".
MonitorsAtRest == \A m \in Procs : mon[m].pc \in {"none", "loop", "read"}
DeviceOnlyWhileConnected ==
    (Quiescent /\ MonitorsAtRest /\ connected_device # None) =>
        (is_running /\ last_status = "connected")

\* C28: the lock is held only by a caller that is inside the locked body of
\* start() or stop(), so it is free after every return, by success, failure or
\* fault; and every call of start(), stop() and restart() returns.
LockHeldInBodyOnly == \A t \in Callers : process_lock = t => InBody(t)
EveryCallReturns == \A t \in Callers : (pc[t] # "idle") ~> (pc[t] = "idle")
LockAlwaysReleased == []LockHeldInBodyOnly /\ EveryCallReturns
FaultReturnedLockFree ==
    /\ ret.op \in {"start", "stop", "restart"}
    /\ ret.call.fail # "none"
    /\ process_lock = None
    /\ \E t \in Callers : pc[t] \in {"start_lock", "stop_lock"}

\* C29: the phone manager's call_state is always one of idle, incoming,
\* outgoing, active and held.
CallStates == {"idle", "incoming", "outgoing", "active", "held"}
CallStateInVocabulary == phone.call_state \in CallStates

\* C30: the Bluetooth manager's is_connected() is true exactly when a connected
\* device address is recorded.
ConnectedIffAddressRecorded == is_connected <=> (bluetooth.connected_device # None)

====
